---- MODULE Spec2Model ----
(***************************************************************************)
(* Model of src/features/common/ai/providers/whisper_live_server.py: the   *)
(* WhisperLive launcher.  Loading the module replaces                      *)
(* VoiceActivityDetector.__init__ by patched_init; main() parses the       *)
(* command line, writes WHISPER_LIVE_VAD_THRESHOLD, constructs the         *)
(* TranscriptionServer and calls server.run.                               *)
(*                                                                         *)
(* Python strings are sequences of one-character strings.  An optional     *)
(* value (None / a missing flag / an unset environment variable) is the    *)
(* empty sequence, a present value x is <<x>>.                             *)
(* A Python float is a record [k, neg, m]: k = "fin" is the decimal value  *)
(* (-1)^neg * m / 10^FracDigits, k = "inf" and k = "nan" the specials.     *)
(***************************************************************************)
EXTENDS Integers, Sequences, FiniteSets, TLC

VARIABLES
    pc,          \* position of the process in the script
    isMain,      \* __name__ == "__main__": run as a script, or imported
    argv,        \* the command line: [port, model, vad], each optional text
    envAtStart,  \* the value of the environment variable when the process started
    env,         \* os.environ['WHISPER_LIVE_VAD_THRESHOLD'], optional text
    vadInit,     \* what VoiceActivityDetector.__init__ is bound to
    original_init, \* the module global original_init, optional
    args,        \* the parsed namespace, optional
    server,      \* the local variable server: TRUE once TranscriptionServer() returned
    runCalls,    \* the calls of server.run, in order
    detectors,   \* the detectors constructed, in order, with what the original constructor got
    stdout,      \* the lines printed
    exitCode,    \* the process's exit code, optional
    envWrites,   \* number of assignments to the environment variable
    initWrites   \* number of assignments to VoiceActivityDetector.__init__

vars == <<pc, isMain, argv, envAtStart, env, vadInit, original_init, args, server, runCalls,
          detectors, stdout, exitCode, envWrites, initWrites>>

-----------------------------------------------------------------------------
(* Bounds of the model *)

\* fractional decimal digits a modelled float carries
FracDigits == 2
\* longest --model text enumerated
MaxModelLen == 2
\* most detectors constructed in one run
MaxDetectors == 2

-----------------------------------------------------------------------------
(* Optional values *)

None == <<>>
Some(x) == <<x>>
IsSome(o) == o # <<>>
Get(o) == o[1]

-----------------------------------------------------------------------------
(* Text and numbers *)

Digits == <<"0", "1", "2", "3", "4", "5", "6", "7", "8", "9">>
IsDigit(c) == \E i \in 1..10 : Digits[i] = c
DigitVal(c) == (CHOOSE i \in 1..10 : Digits[i] = c) - 1
AllDigits(s) == \A i \in 1..Len(s) : IsDigit(s[i])

RECURSIVE DigitsToNat(_)
DigitsToNat(s) ==
    IF s = <<>> THEN 0
    ELSE 10 * DigitsToNat(SubSeq(s, 1, Len(s) - 1)) + DigitVal(s[Len(s)])

RECURSIVE NatToDigits(_)
NatToDigits(n) ==
    IF n < 10 THEN <<Digits[n + 1]>>
    ELSE NatToDigits(n \div 10) \o <<Digits[(n % 10) + 1]>>

RECURSIVE Pow10(_)
Pow10(n) == IF n = 0 THEN 1 ELSE 10 * Pow10(n - 1)

Scale == Pow10(FracDigits)

HasSign(s) == Len(s) > 0 /\ s[1] \in {"-", "+"}
Unsigned(s) == IF HasSign(s) THEN Tail(s) ELSE s
IsNeg(s) == Len(s) > 0 /\ s[1] = "-"

\* the substring test  c in s  for a one-character c
Contains(s, c) == \E i \in 1..Len(s) : s[i] = c

\* int(s) of the argparse type: Some(n), or None where int() raises ValueError
PyInt(s) ==
    LET b == Unsigned(s) IN
    IF Len(b) > 0 /\ AllDigits(b)
    THEN Some(IF IsNeg(s) THEN 0 - DigitsToNat(b) ELSE DigitsToNat(b))
    ELSE None

\* str(n) of an int
IntToStr(n) == IF n < 0 THEN <<"-">> \o NatToDigits(0 - n) ELSE NatToDigits(n)

Fin(neg, m) == [k |-> "fin", neg |-> neg, m |-> m]
Inf(neg) == [k |-> "inf", neg |-> neg, m |-> 0]
NaN == [k |-> "nan", neg |-> FALSE, m |-> 0]

PointAt(b) == CHOOSE i \in 1..Len(b) : b[i] = "."

\* float(s): Some(f), or None where float() raises ValueError.  Covers the
\* decimal forms [sign] digits [. digits] and the literals nan and inf;
\* exponents, underscores and blanks are not among the inputs drawn below,
\* and no input carries more than FracDigits fractional digits.
PyFloat(s) ==
    LET b == Unsigned(s) IN
    IF b = <<"n", "a", "n">> THEN Some(NaN)
    ELSE IF b = <<"i", "n", "f">> THEN Some(Inf(IsNeg(s)))
    ELSE IF ~Contains(b, ".")
    THEN IF Len(b) > 0 /\ AllDigits(b)
         THEN Some(Fin(IsNeg(s), DigitsToNat(b) * Scale))
         ELSE None
    ELSE LET p == PointAt(b)
             ip == SubSeq(b, 1, p - 1)
             fp == SubSeq(b, p + 1, Len(b))
         IN IF AllDigits(ip) /\ AllDigits(fp) /\ Len(ip) + Len(fp) > 0
               /\ Len(fp) <= FracDigits
            THEN Some(Fin(IsNeg(s),
                          DigitsToNat(ip) * Scale
                          + DigitsToNat(fp) * Pow10(FracDigits - Len(fp))))
            ELSE None

RECURSIVE StripZeros(_)
StripZeros(d) ==
    IF Len(d) > 1 /\ d[Len(d)] = "0" THEN StripZeros(SubSeq(d, 1, Len(d) - 1))
    ELSE d

RECURSIVE PadLeft(_, _)
PadLeft(d, n) == IF Len(d) >= n THEN d ELSE PadLeft(<<"0">> \o d, n)

\* str(f) of a float: the shortest repr, positional in the modelled range
FloatToStr(f) ==
    LET sign == IF f.neg THEN <<"-">> ELSE <<>> IN
    IF f.k = "nan" THEN <<"n", "a", "n">>
    ELSE IF f.k = "inf" THEN sign \o <<"i", "n", "f">>
    ELSE sign \o NatToDigits(f.m \div Scale) \o <<".">>
         \o StripZeros(PadLeft(NatToDigits(f.m % Scale), FracDigits))

-----------------------------------------------------------------------------
(* Values fixed by the source *)

\* argparse default of --port
DefaultPort == 9090
\* default of patched_init's frame_rate parameter
DefaultFrameRate == 16000
\* argparse default of --model
DefaultModel == <<"s", "m", "a", "l", "l", ".", "e", "n">>
\* argparse default of --vad_threshold: the float 0.3
DefaultVadThreshold == Fin(FALSE, (3 * Scale) \div 10)
\* default of patched_init's threshold parameter: the float 0.5
DefaultThresholdParam == Fin(FALSE, (5 * Scale) \div 10)
\* second argument of os.environ.get in patched_init: the float 0.3
FallbackThreshold == Fin(FALSE, (3 * Scale) \div 10)

-----------------------------------------------------------------------------
(* Inputs *)

FracLen(s) == IF Contains(s, ".") THEN Len(s) - PointAt(s) ELSE 0

\* texts given to --vad_threshold
AllVadTexts ==
    { <<"0", ".", "3">>, <<"0", ".", "3", "0">>, <<"0", ".", "1", "5">>,
      <<".", "5">>, <<"1", ".", "5">>, <<"-", "0", ".", "2">>,
      <<"n", "a", "n">>, <<"a", "b", "c">>, <<"0", ".", "1", "2", "5">> }
VadTexts == {s \in AllVadTexts : FracLen(s) <= FracDigits}

\* texts given to --port
PortTexts == { <<"8", "0">>, <<"x">> }

\* texts given to --model
ModelAlphabet == {"m", "/"}
ModelTexts ==
    UNION {[1..n -> ModelAlphabet] : n \in 0..MaxModelLen}
        \cup { <<"a", "\\", "b">> }

\* values of the environment variable when the process starts
EnvTexts == { <<"0", ".", "5">>, <<"a", "b", "c">> }

Opt(S) == {None} \cup {Some(x) : x \in S}

\* arguments a caller gives the detector's constructor
CallerThresholds == Opt({Fin(FALSE, (9 * Scale) \div 10)})
CallerFrameRates == Opt({8000})
\* the calls drawn: no argument, frame_rate alone (as the library calls it),
\* or both arguments
CallerArgs ==
    {c \in [threshold : CallerThresholds, frame_rate : CallerFrameRates] :
        IsSome(c.threshold) => IsSome(c.frame_rate)}

-----------------------------------------------------------------------------
(* The process *)

Init ==
    /\ pc = "start"
    /\ isMain \in BOOLEAN
    /\ argv \in [port : Opt(PortTexts), model : Opt(ModelTexts), vad : Opt(VadTexts)]
    /\ (~isMain => argv = [port |-> None, model |-> None, vad |-> None])
    /\ envAtStart \in Opt(EnvTexts)
    /\ env = envAtStart
    /\ vadInit = "original"
    /\ original_init = None
    /\ args = None
    /\ server = FALSE
    /\ runCalls = <<>>
    /\ detectors = <<>>
    /\ stdout = <<>>
    /\ exitCode = None
    /\ envWrites = 0
    /\ initWrites = 0

\* faulty variant of LoadModule: line 20 is missing, the constructor is not replaced
LoadModule_NoPatch ==
    /\ pc = "start"
    /\ original_init' = Some(vadInit)
    /\ pc' = IF isMain THEN "main" ELSE "imported"
    /\ UNCHANGED <<isMain, argv, envAtStart, env, vadInit, args, server, runCalls,
                   detectors, stdout, exitCode, envWrites, initWrites>>

\* lines 12-20 and 43: the module body binds original_init and replaces the
\* detector's constructor; main() is entered only when run as a script
LoadModule ==
    /\ pc = "start"
    /\ original_init' = Some(vadInit)
    /\ vadInit' = "patched"
    /\ initWrites' = initWrites + 1
    /\ pc' = IF isMain THEN "main" ELSE "imported"
    /\ UNCHANGED <<isMain, argv, envAtStart, env, args, server, runCalls, detectors, stdout,
                   exitCode, envWrites>>

\* faulty variant of ParsedArgs: --vad_threshold defaults to 0.5
ParsedArgs_OtherDefault(a) ==
    LET port == IF IsSome(a.port) THEN PyInt(Get(a.port)) ELSE Some(DefaultPort)
        vad == IF IsSome(a.vad) THEN PyFloat(Get(a.vad)) ELSE Some(DefaultThresholdParam)
        model == IF IsSome(a.model) THEN Get(a.model) ELSE DefaultModel
    IN IF IsSome(port) /\ IsSome(vad)
       THEN Some([port |-> Get(port), model |-> model, vad_threshold |-> Get(vad)])
       ELSE None

\* lines 23-27: the namespace parse_args builds, None where a type raises
ParsedArgs(a) ==
    LET port == IF IsSome(a.port) THEN PyInt(Get(a.port)) ELSE Some(DefaultPort)
        vad == IF IsSome(a.vad) THEN PyFloat(Get(a.vad)) ELSE Some(DefaultVadThreshold)
        model == IF IsSome(a.model) THEN Get(a.model) ELSE DefaultModel
    IN IF IsSome(port) /\ IsSome(vad)
       THEN Some([port |-> Get(port), model |-> model, vad_threshold |-> Get(vad)])
       ELSE None

\* line 27, parse_args returns
ParseArgs ==
    /\ pc = "main"
    /\ IsSome(ParsedArgs(argv))
    /\ args' = ParsedArgs(argv)
    /\ pc' = "parsed"
    /\ UNCHANGED <<isMain, argv, envAtStart, env, vadInit, original_init, server, runCalls,
                   detectors, stdout, exitCode, envWrites, initWrites>>

\* line 27, parse_args calls parser.error: usage on stderr, sys.exit(2)
ParseArgsFails ==
    /\ pc = "main"
    /\ ~IsSome(ParsedArgs(argv))
    /\ pc' = "exited"
    /\ exitCode' = Some(2)
    /\ UNCHANGED <<isMain, argv, envAtStart, env, vadInit, original_init, args, server, runCalls,
                   detectors, stdout, envWrites, initWrites>>

\* faulty variant of ThresholdEnvText: the threshold is clamped to [0, 1]
ThresholdEnvText_Clamped(v) ==
    IF v.k = "fin" /\ v.neg THEN FloatToStr(Fin(FALSE, 0))
    ELSE IF v.k = "fin" /\ v.m > Scale THEN FloatToStr(Fin(FALSE, Scale))
    ELSE FloatToStr(v)

\* line 30: the text stored in the environment variable
ThresholdEnvText(v) == FloatToStr(v)

\* faulty variant of SetEnv: line 30 is missing
SetEnv_Skipped ==
    /\ pc = "parsed"
    /\ pc' = "env_set"
    /\ UNCHANGED <<isMain, argv, envAtStart, env, vadInit, original_init, args, server,
                   runCalls, detectors, stdout, exitCode, envWrites, initWrites>>

\* line 30
SetEnv ==
    /\ pc = "parsed"
    /\ env' = Some(ThresholdEnvText(Get(args).vad_threshold))
    /\ envWrites' = envWrites + 1
    /\ pc' = "env_set"
    /\ UNCHANGED <<isMain, argv, envAtStart, vadInit, original_init, args, server, runCalls,
                   detectors, stdout, exitCode, initWrites>>

\* line 32: TranscriptionServer() is entered
ServerInitBegin ==
    /\ pc = "env_set"
    /\ pc' = "server_init"
    /\ UNCHANGED <<isMain, argv, envAtStart, env, vadInit, original_init, args, server, runCalls,
                   detectors, stdout, exitCode, envWrites, initWrites>>

\* line 32: TranscriptionServer() returns and server is bound
ServerInitEnd ==
    /\ pc = "server_init"
    /\ server' = TRUE
    /\ pc' = "server_ready"
    /\ UNCHANGED <<isMain, argv, envAtStart, env, vadInit, original_init, args, runCalls,
                   detectors, stdout, exitCode, envWrites, initWrites>>

\* faulty variant of ModelPath: a backslash counts as a separator too
ModelPath_AnySeparator(model) ==
    IF Contains(model, "/") \/ Contains(model, "\\") THEN Some(model) ELSE None

\* line 33
ModelPath(model) == IF Contains(model, "/") THEN Some(model) ELSE None

\* line 34
StartLine(a) ==
    <<"[WhisperLive] Starting server on port ">> \o IntToStr(a.port)
        \o <<" with model=">> \o a.model
        \o <<", vad_threshold=">> \o FloatToStr(a.vad_threshold)

\* faulty variant of RunArgs: the server binds to the loopback address
RunArgs_Loopback(a) ==
    [host |-> "127.0.0.1", port |-> a.port, backend |-> "faster_whisper",
     faster_whisper_custom_model_path |-> ModelPath(a.model),
     single_model |-> TRUE]

\* lines 35-41: the arguments of server.run
RunArgs(a) ==
    [host |-> "0.0.0.0", port |-> a.port, backend |-> "faster_whisper",
     faster_whisper_custom_model_path |-> ModelPath(a.model),
     single_model |-> TRUE]

\* lines 33-35: resolve the model, print, enter server.run
RunBegin ==
    /\ pc = "server_ready"
    /\ stdout' = Append(stdout, StartLine(Get(args)))
    /\ runCalls' = Append(runCalls, RunArgs(Get(args)))
    /\ pc' = "running"
    /\ UNCHANGED <<isMain, argv, envAtStart, env, vadInit, original_init, args, server,
                   detectors, exitCode, envWrites, initWrites>>

\* faulty variant of Raises: the failed call is made again
Raises_Retry ==
    /\ pc \in {"server_init", "running"}
    /\ pc' = IF pc = "running" THEN "server_ready" ELSE "env_set"
    /\ UNCHANGED <<isMain, argv, envAtStart, env, vadInit, original_init, args, server,
                   runCalls, detectors, stdout, exitCode, envWrites, initWrites>>

\* an exception leaves TranscriptionServer() or server.run: nothing in main
\* catches it, the interpreter exits with code 1
Raises ==
    /\ pc \in {"server_init", "running"}
    /\ pc' = "exited"
    /\ exitCode' = Some(1)
    /\ UNCHANGED <<isMain, argv, envAtStart, env, vadInit, original_init, args, server, runCalls,
                   detectors, stdout, envWrites, initWrites>>

\* server.run returns, main returns, the script ends
RunReturns ==
    /\ pc = "running"
    /\ pc' = "exited"
    /\ exitCode' = Some(0)
    /\ UNCHANGED <<isMain, argv, envAtStart, env, vadInit, original_init, args, server, runCalls,
                   detectors, stdout, envWrites, initWrites>>

\* faulty variant of patched_init: the threshold parameter is passed on
patched_init_KeepsParam(e, threshold, frame_rate) ==
    Some([threshold |-> threshold, frame_rate |-> frame_rate])

\* faulty variant of patched_init: a threshold other than the default wins
patched_init_ExplicitWins(e, threshold, frame_rate) ==
    LET vad_threshold == IF threshold # DefaultThresholdParam THEN Some(threshold)
                         ELSE IF IsSome(e) THEN PyFloat(Get(e))
                         ELSE Some(FallbackThreshold)
    IN IF IsSome(vad_threshold)
       THEN Some([threshold |-> Get(vad_threshold), frame_rate |-> frame_rate])
       ELSE None

\* lines 14-17: the arguments patched_init hands to original_init, None where
\* float() raises.  e is the environment variable, threshold and frame_rate
\* the parameters after their defaults.
patched_init(e, threshold, frame_rate) ==
    LET vad_threshold == IF IsSome(e) THEN PyFloat(Get(e)) ELSE Some(FallbackThreshold)
    IN IF IsSome(vad_threshold)
       THEN Some([threshold |-> Get(vad_threshold), frame_rate |-> frame_rate])
       ELSE None

\* line 18
UsingLine(t) == <<"[WhisperLive] Using VAD threshold: ">> \o FloatToStr(t)

\* where a detector can be constructed: by the importer of the module, inside
\* TranscriptionServer() or inside server.run
CanConstruct == pc \in {"imported", "server_init", "running"}

\* what VoiceActivityDetector(...) hands to the original constructor under
\* the current binding of __init__, None where the call raises
ConstructorCall(thr, fr) ==
    LET threshold == IF IsSome(thr) THEN Get(thr) ELSE DefaultThresholdParam
        frame_rate == IF IsSome(fr) THEN Get(fr) ELSE DefaultFrameRate
    IN IF vadInit = "patched"
       THEN patched_init(env, threshold, frame_rate)
       ELSE Some([threshold |-> threshold, frame_rate |-> frame_rate])

\* faulty variant of ConstructDetector: an explicit threshold is stored in the variable
ConstructDetector_WritesEnv(thr, fr) ==
    /\ CanConstruct
    /\ Len(detectors) < MaxDetectors
    /\ IsSome(ConstructorCall(thr, fr))
    /\ LET call == Get(ConstructorCall(thr, fr)) IN
        /\ detectors' = Append(detectors,
              [site |-> pc, argThreshold |-> thr, argFrameRate |-> fr,
               envSeen |-> env, patched |-> (vadInit = "patched"),
               threshold |-> call.threshold, frame_rate |-> call.frame_rate])
        /\ stdout' = Append(stdout, UsingLine(call.threshold))
        /\ env' = IF IsSome(thr) THEN Some(FloatToStr(Get(thr))) ELSE env
    /\ UNCHANGED <<pc, isMain, argv, envAtStart, vadInit, original_init, args, server,
                   runCalls, exitCode, envWrites, initWrites>>

\* VoiceActivityDetector(threshold=thr, frame_rate=fr) returns a detector
ConstructDetector(thr, fr) ==
    /\ CanConstruct
    /\ Len(detectors) < MaxDetectors
    /\ IsSome(ConstructorCall(thr, fr))
    /\ LET call == Get(ConstructorCall(thr, fr)) IN
        /\ detectors' = Append(detectors,
              [site |-> pc, argThreshold |-> thr, argFrameRate |-> fr,
               envSeen |-> env, patched |-> (vadInit = "patched"),
               threshold |-> call.threshold, frame_rate |-> call.frame_rate])
        /\ stdout' = IF vadInit = "patched"
                     THEN Append(stdout, UsingLine(call.threshold))
                     ELSE stdout
    /\ UNCHANGED <<pc, isMain, argv, envAtStart, env, vadInit, original_init, args, server,
                   runCalls, exitCode, envWrites, initWrites>>

\* VoiceActivityDetector(...) raises ValueError out of patched_init: the
\* original constructor is not reached, the exception ends the process
ConstructDetectorRaises(thr, fr) ==
    /\ CanConstruct
    /\ Len(detectors) < MaxDetectors
    /\ ~IsSome(ConstructorCall(thr, fr))
    /\ pc' = "exited"
    /\ exitCode' = Some(1)
    /\ UNCHANGED <<isMain, argv, envAtStart, env, vadInit, original_init, args, server, runCalls,
                   detectors, stdout, envWrites, initWrites>>

Next ==
    \/ LoadModule
    \/ ParseArgs
    \/ ParseArgsFails
    \/ SetEnv
    \/ ServerInitBegin
    \/ ServerInitEnd
    \/ RunBegin
    \/ Raises
    \/ RunReturns
    \/ \E c \in CallerArgs : ConstructDetector(c.threshold, c.frame_rate)
    \/ \E c \in CallerArgs : ConstructDetectorRaises(c.threshold, c.frame_rate)

Spec == Init /\ [][Next]_vars

-----------------------------------------------------------------------------
(* Properties *)

\* main() has executed line 30
EnvWritten == IsSome(args) /\ pc # "parsed"

\* TranscriptionServer() has been entered
ServerStarted == isMain /\ (pc \in {"server_init", "server_ready", "running"}
                            \/ (pc = "exited" /\ exitCode # Some(2)))

\* the text str() gives for the float each --vad_threshold text denotes,
\* written out case by case
ExpectedEnvText(v) ==
    CASE v = None -> <<"0", ".", "3">>
      [] v = Some(<<"0", ".", "3">>) -> <<"0", ".", "3">>
      [] v = Some(<<"0", ".", "3", "0">>) -> <<"0", ".", "3">>
      [] v = Some(<<"0", ".", "1", "5">>) -> <<"0", ".", "1", "5">>
      [] v = Some(<<".", "5">>) -> <<"0", ".", "5">>
      [] v = Some(<<"1", ".", "5">>) -> <<"1", ".", "5">>
      [] v = Some(<<"-", "0", ".", "2">>) -> <<"-", "0", ".", "2">>
      [] v = Some(<<"n", "a", "n">>) -> <<"n", "a", "n">>
      [] v = Some(<<"0", ".", "1", "2", "5">>) -> <<"0", ".", "1", "2", "5">>

\* C1: once main() has written the environment variable, it holds str() of
\* the parsed vad_threshold, for every command line that parses and every
\* value the variable had at process start: out-of-range thresholds (1.5,
\* -0.2, nan) are stored as they are, an omitted flag gives "0.3".
C1_EnvEqualsThresholdText ==
    EnvWritten =>
        /\ env = Some(FloatToStr(Get(args).vad_threshold))
        /\ env = Some(ExpectedEnvText(argv.vad))

\* C1 witness: an out-of-range threshold was given, the variable held another
\* value at start, and main() has stored the threshold's text unclamped
C1_Witness ==
    /\ pc = "running"
    /\ argv.vad = Some(<<"1", ".", "5">>)
    /\ envAtStart = Some(<<"0", ".", "5">>)
    /\ env = Some(<<"1", ".", "5">>)

\* the threshold os.environ.get and float() give for a value of the variable:
\* Some(t), or None where float() raises
EnvThreshold(e) ==
    IF IsSome(e) THEN PyFloat(Get(e)) ELSE Some(Fin(FALSE, (3 * Scale) \div 10))

\* C2: a detector constructed through the patched constructor with no
\* explicit threshold hands the original constructor the float of the
\* environment variable as it was at that moment, 0.3 when it was unset; the
\* default 0.5 of the parameter is passed only when the variable held 0.5.
C2_NoArgThresholdFromEnv ==
    \A i \in 1..Len(detectors) :
        LET d == detectors[i] IN
        (d.patched /\ d.argThreshold = None) =>
            /\ Some(d.threshold) = EnvThreshold(d.envSeen)
            /\ (d.envSeen = None => d.threshold = Fin(FALSE, (3 * Scale) \div 10))
            /\ (d.threshold = Fin(FALSE, (5 * Scale) \div 10)
                    => d.envSeen \in {Some(<<"0", ".", "5">>), Some(<<".", "5">>)})

\* C2 witness: a detector built without a threshold while the variable was
\* unset got the fallback 0.3, not 0.5
C2_Witness ==
    \E i \in 1..Len(detectors) :
        /\ detectors[i].patched
        /\ detectors[i].argThreshold = None
        /\ detectors[i].envSeen = None
        /\ detectors[i].threshold = Fin(FALSE, (3 * Scale) \div 10)

\* C3: in every call of server.run the custom model path is the model text
\* itself when the text contains "/", and None when it does not.
C3_ModelPathResolution ==
    \A i \in 1..Len(runCalls) :
        LET model == IF IsSome(argv.model) THEN Get(argv.model) ELSE DefaultModel
            path == runCalls[i].faster_whisper_custom_model_path
        IN /\ Contains(model, "/") => path = Some(model)
           /\ ~Contains(model, "/") => path = None

\* C3 witness: server.run was called for a model text holding "/"
C3_Witness ==
    /\ Len(runCalls) = 1
    /\ argv.model = Some(<<"m", "/">>)
    /\ runCalls[1].faster_whisper_custom_model_path = Some(<<"m", "/">>)

\* C4: with no flag on the command line main() runs the server on port 9090
\* with custom model path None and stores "0.3" in the environment variable;
\* the parsed configuration is port 9090, model "small.en", threshold 0.3.
C4_Defaults ==
    (argv = [port |-> None, model |-> None, vad |-> None] /\ Len(runCalls) > 0) =>
        /\ args = Some([port |-> 9090,
                        model |-> <<"s", "m", "a", "l", "l", ".", "e", "n">>,
                        vad_threshold |-> Fin(FALSE, (3 * Scale) \div 10)])
        /\ runCalls[1].port = 9090
        /\ runCalls[1].faster_whisper_custom_model_path = None
        /\ env = Some(<<"0", ".", "3">>)

\* C4 witness: the script ran without flags and reached server.run
C4_Witness ==
    /\ isMain
    /\ argv = [port |-> None, model |-> None, vad |-> None]
    /\ pc = "running"
    /\ Len(runCalls) = 1

\* C5: every call of server.run has host "0.0.0.0", the parsed port, backend
\* "faster_whisper", the resolved custom model path and single_model = True.
C5_RunArguments ==
    \A i \in 1..Len(runCalls) :
        /\ runCalls[i].host = "0.0.0.0"
        /\ runCalls[i].backend = "faster_whisper"
        /\ runCalls[i].single_model = TRUE
        /\ runCalls[i].port = Get(args).port
        /\ runCalls[i].port = (IF argv.port = None THEN 9090 ELSE 80)
        /\ runCalls[i].faster_whisper_custom_model_path
               = (IF Contains(Get(args).model, "/") THEN Some(Get(args).model) ELSE None)

\* C5 witness: server.run was called with a port given on the command line
C5_Witness ==
    /\ Len(runCalls) = 1
    /\ argv.port = Some(<<"8", "0">>)
    /\ runCalls[1].port = 80

\* C6: the environment variable is written before TranscriptionServer() is
\* entered, and every detector constructed inside TranscriptionServer() or
\* server.run saw the variable set and got the command line's vad_threshold,
\* never the 0.3 fallback of an unset variable.
C6_ServerDetectorsGetCliThreshold ==
    /\ ServerStarted => envWrites >= 1
    /\ \A i \in 1..Len(detectors) :
           LET d == detectors[i] IN
           d.site \in {"server_init", "running"} =>
               /\ IsSome(d.envSeen)
               /\ d.envSeen = Some(FloatToStr(Get(args).vad_threshold))
               /\ d.threshold = Get(args).vad_threshold
               /\ (IsSome(argv.vad) => Some(d.threshold) = PyFloat(Get(argv.vad)))

\* C6 witness: a detector built inside server.run, the variable unset at
\* start, got the threshold of the command line
C6_Witness ==
    /\ envAtStart = None
    /\ argv.vad = Some(<<"0", ".", "1", "5">>)
    /\ \E i \in 1..Len(detectors) :
           /\ detectors[i].site = "running"
           /\ detectors[i].threshold = Fin(FALSE, (15 * Scale) \div 100)

\* the command line holds a text its type rejects
Malformed == (IsSome(argv.port) /\ PyInt(Get(argv.port)) = None)
                 \/ (IsSome(argv.vad) /\ PyFloat(Get(argv.vad)) = None)

\* C7: a command line that does not parse ends the process with exit code 2,
\* the environment variable as it was at start, no server constructed and
\* no detector; an exception out of the server ends the process with a
\* nonzero code; server.run is called at most once and never after the
\* process has ended with a failure.
C7_FailuresTerminate ==
    /\ Len(runCalls) <= 1
    /\ (isMain /\ Malformed /\ pc \notin {"start", "main"}) =>
           /\ pc = "exited"
           /\ exitCode = Some(2)
           /\ env = envAtStart
           /\ envWrites = 0
           /\ ~server
           /\ runCalls = <<>>
           /\ detectors = <<>>
    /\ (exitCode = Some(2)) => (Malformed /\ pc = "exited")
    /\ (IsSome(exitCode) /\ exitCode # Some(0)) => pc = "exited"
    /\ (pc = "exited") => IsSome(exitCode)

\* C7 witness: server.run raised and the process has ended, after one call
C7_Witness ==
    /\ pc = "exited"
    /\ exitCode = Some(1)
    /\ Len(runCalls) = 1

\* C8 as stated: the override is installed after the threshold has been
\* published (and so after the command line has been parsed), and before
\* the server is started.
C8_InstallAfterPublish ==
    /\ vadInit = "patched" => (IsSome(args) /\ envWrites >= 1)
    /\ ServerStarted => vadInit = "patched"

\* C8 amended: the override is installed when the module is loaded, before
\* the command line is parsed; then the command line is parsed, then the
\* threshold is published, then the server is started.
C8_InstallAtLoadThenParsePublishStart ==
    /\ (pc # "start") <=> (vadInit = "patched")
    /\ (pc # "start") <=> (initWrites = 1)
    /\ (pc = "main") => (vadInit = "patched" /\ args = None /\ envWrites = 0)
    /\ IsSome(args) => vadInit = "patched"
    /\ envWrites >= 1 => IsSome(args)
    /\ server => envWrites >= 1
    /\ ServerStarted => (envWrites >= 1 /\ vadInit = "patched")
    /\ Len(runCalls) > 0 => server

\* C8 witness: the server runs, after all four steps
C8_Witness ==
    /\ pc = "running"
    /\ vadInit = "patched"
    /\ envWrites = 1
    /\ Len(runCalls) = 1

\* C9: in a run of the script the environment variable and
\* VoiceActivityDetector.__init__ have each been assigned exactly once when
\* the server is started, and no later step, the construction of a detector
\* included, changes either.
C9_WrittenOnceThenReadOnly ==
    /\ [](ServerStarted => (envWrites = 1 /\ initWrites = 1))
    /\ [][ServerStarted =>
            (env' = env /\ vadInit' = vadInit
             /\ envWrites' = envWrites /\ initWrites' = initWrites)]_vars

\* C9 witness: the server runs and has constructed as many detectors as the
\* model allows, one of them with an explicit threshold
C9_Witness ==
    /\ pc = "running"
    /\ Len(detectors) = MaxDetectors
    /\ \E i \in 1..Len(detectors) : IsSome(detectors[i].argThreshold)
    /\ envWrites = 1
    /\ initWrites = 1

\* C10: two detectors constructed through the patched constructor under the
\* same value of the environment variable get the same threshold whatever
\* threshold their callers gave, and each gets its caller's frame_rate.
C10_ThresholdIndependentOfArgument ==
    /\ \A i, j \in 1..Len(detectors) :
           (detectors[i].patched /\ detectors[j].patched
            /\ detectors[i].envSeen = detectors[j].envSeen)
               => detectors[i].threshold = detectors[j].threshold
    /\ \A i \in 1..Len(detectors) :
           detectors[i].patched =>
               detectors[i].frame_rate
                   = (IF IsSome(detectors[i].argFrameRate)
                      THEN Get(detectors[i].argFrameRate) ELSE 16000)

\* C10 witness: under one value of the variable, a detector with an explicit
\* threshold and frame rate and one without got the same threshold
C10_Witness ==
    \E i, j \in 1..Len(detectors) :
        /\ detectors[i].envSeen = detectors[j].envSeen
        /\ IsSome(detectors[i].argThreshold)
        /\ detectors[i].argFrameRate = Some(8000)
        /\ detectors[i].frame_rate = 8000
        /\ detectors[j].argThreshold = None
        /\ detectors[i].threshold = detectors[j].threshold
        /\ detectors[i].threshold # Get(detectors[i].argThreshold)

====
